---- MODULE Spec2Model ----
(***************************************************************************)
(* Model of package logger (logger.go): a facade over log/syslog that      *)
(* routes severity-levelled messages to Syslog or to the screen.           *)
(*                                                                         *)
(* The package state is the four package variables s, debug, verbose and   *)
(* color.  The syslog collaborator is modelled by conns, the connection    *)
(* state of every *syslog.Writer that syslog.New has returned.  last       *)
(* records the most recent call of the public API: its arguments, its      *)
(* return value, the lines it printed and the collaborator calls it made.  *)
(***************************************************************************)
EXTENDS Naturals, Sequences, FiniteSets

VARIABLES s, debug, verbose, color, conns, last

vars == <<s, debug, verbose, color, conns, last>>

(* ------------------------------ bounds --------------------------------- *)

\* Number of *syslog.Writer values syslog.New may hand out in one behaviour.
MaxConn == 2

\* The nil *syslog.Writer: the zero value of s.
NIL == 0

\* Inputs of the calls.
Tags == {"", "svc"}
Messages == {"disk full", "x"}
Clock == {"2024-01-01T00:00:00Z", "2024-01-01T00:00:01Z"}
TermValues == {"dumb", "xterm"}

(* ----------------------------- constants ------------------------------- *)

L_EMERGENCY == 0
L_ALERT == 1
L_CRITICAL == 2
L_ERROR == 3
L_WARNING == 4
L_NOTICE == 5
L_INFO == 6
L_DEBUG == 7

M_EMERGENCY == "EMERGENCY"
M_ALERT == "ALERT    "
M_CRITICAL == "CRITICAL "
M_ERROR == "ERROR    "
M_WARNING == "WARNING  "
M_NOTICE == "NOTICE   "
M_INFO == "INFO     "
M_DEBUG == "DEBUG    "

\* The colour variables are byte strings starting with ESC (27) "[";
\* ESC is written "^[" here, the remaining bytes are printable.
C_BLUE == "^[[97;44m"
C_CYAN == "^[[97;46m"
C_GREEN == "^[[97;42m"
C_WHITE == "^[[90;47m"
C_YELLOW == "^[[97;43m"
C_MAGENTA == "^[[97;45m"
C_RED == "^[[97;41m"
C_RESET == "^[[0m"

(* ------------------------- results of a call --------------------------- *)

\* nil error
OK == "ok"
\* errors.New("logger: tag cannot be empty")
ConfigurationError == "ConfigurationError"
\* the error of syslog.New or of (*Writer).Close
ConnectionError == "ConnectionError"
\* the error of one of the severity methods of *syslog.Writer
EmissionError == "EmissionError"
\* a method called on the nil *syslog.Writer: nil pointer dereference
Panic == "panic"
\* functions without a return value
Void == "void"

\* The package state and the connections, as a call finds them.
State == [s |-> s, debug |-> debug, verbose |-> verbose, color |-> color,
          conns |-> conns]

\* The record of one call of the public API: the function and its argument,
\* the state it started in, the clock and the terminal it read (if it did),
\* its return value, the lines it printed and the collaborator calls it made.
Call(op, arg, now, env, result, screen, syslog) ==
    [op |-> op, arg |-> arg, pre |-> State, now |-> now, env |-> env,
     result |-> result, screen |-> screen, syslog |-> syslog]

\* One call of the syslog collaborator and the error it returned.
SyslogCall(method, handle, message, err) ==
    [method |-> method, handle |-> handle, message |-> message, err |-> err]

NoTime == "-"
NoEnv == [term |-> "-", isTerminal |-> FALSE, isCygwinTerminal |-> FALSE]

(* ---------------------------- initial state ---------------------------- *)

Init ==
    /\ s = NIL
    /\ debug = FALSE
    /\ verbose = FALSE
    /\ color = TRUE
    /\ conns = <<>>
    /\ last = Call("init", "", NoTime, NoEnv, Void, <<>>, <<>>)

(* --------------------------- Open and Close ---------------------------- *)

\* The condition under which Open switches colours off.
NoColorTerminal(term, isTerminal, isCygwinTerminal) ==
    term = "dumb" \/ (~isTerminal /\ ~isCygwinTerminal)

\* Open without the test of tag: the empty tag goes to syslog.New as well.
Open_NoTagCheck(tag) ==
    \/ /\ s' = NIL
       /\ last' = Call("Open", tag, NoTime, NoEnv, ConnectionError, <<>>,
                       <<SyslogCall("New", NIL, tag, ConnectionError)>>)
       /\ UNCHANGED <<debug, verbose, color, conns>>
    \/ /\ Len(conns) < MaxConn
       /\ s' = Len(conns) + 1
       /\ conns' = Append(conns, TRUE)
       /\ \E term \in TermValues, isTerminal \in BOOLEAN,
             isCygwinTerminal \in BOOLEAN :
             /\ color' = IF NoColorTerminal(term, isTerminal, isCygwinTerminal)
                         THEN FALSE ELSE color
             /\ last' = Call("Open", tag, NoTime,
                             [term |-> term, isTerminal |-> isTerminal,
                              isCygwinTerminal |-> isCygwinTerminal],
                             OK, <<>>,
                             <<SyslogCall("New", Len(conns) + 1, tag, OK)>>)
       /\ UNCHANGED <<debug, verbose>>

\* Open assigning the outcome of the terminal detection to color.
Open_Redetect(tag) ==
    IF tag # ""
    THEN \/ /\ s' = NIL
            /\ last' = Call("Open", tag, NoTime, NoEnv, ConnectionError, <<>>,
                            <<SyslogCall("New", NIL, tag, ConnectionError)>>)
            /\ UNCHANGED <<debug, verbose, color, conns>>
         \/ /\ Len(conns) < MaxConn
            /\ s' = Len(conns) + 1
            /\ conns' = Append(conns, TRUE)
            /\ \E term \in TermValues, isTerminal \in BOOLEAN,
                  isCygwinTerminal \in BOOLEAN :
                  /\ color' = ~NoColorTerminal(term, isTerminal,
                                               isCygwinTerminal)
                  /\ last' = Call("Open", tag, NoTime,
                                  [term |-> term, isTerminal |-> isTerminal,
                                   isCygwinTerminal |-> isCygwinTerminal],
                                  OK, <<>>,
                                  <<SyslogCall("New", Len(conns) + 1, tag, OK)>>)
            /\ UNCHANGED <<debug, verbose>>
    ELSE /\ last' = Call("Open", tag, NoTime, NoEnv, ConfigurationError,
                         <<>>, <<>>)
         /\ UNCHANGED <<s, debug, verbose, color, conns>>

Open(tag) ==
    IF tag # ""
    THEN \/ \* syslog.New fails: it returns (nil, err), and both are assigned
            /\ s' = NIL
            /\ last' = Call("Open", tag, NoTime, NoEnv, ConnectionError, <<>>,
                            <<SyslogCall("New", NIL, tag, ConnectionError)>>)
            /\ UNCHANGED <<debug, verbose, color, conns>>
         \/ \* syslog.New returns a new connected Writer
            /\ Len(conns) < MaxConn
            /\ s' = Len(conns) + 1
            /\ conns' = Append(conns, TRUE)
            /\ \E term \in TermValues, isTerminal \in BOOLEAN,
                  isCygwinTerminal \in BOOLEAN :
                  /\ color' = IF NoColorTerminal(term, isTerminal,
                                                 isCygwinTerminal)
                              THEN FALSE ELSE color
                  /\ last' = Call("Open", tag, NoTime,
                                  [term |-> term, isTerminal |-> isTerminal,
                                   isCygwinTerminal |-> isCygwinTerminal],
                                  OK, <<>>,
                                  <<SyslogCall("New", Len(conns) + 1, tag, OK)>>)
            /\ UNCHANGED <<debug, verbose>>
    ELSE /\ last' = Call("Open", tag, NoTime, NoEnv, ConfigurationError, <<>>, <<>>)
         /\ UNCHANGED <<s, debug, verbose, color, conns>>

\* Close that also resets s to nil.
Close_ClearsTarget ==
    IF s = NIL
    THEN /\ last' = Call("Close", "", NoTime, NoEnv, Panic, <<>>, <<>>)
         /\ UNCHANGED <<s, debug, verbose, color, conns>>
    ELSE /\ \E err \in {OK, ConnectionError} :
              /\ err = ConnectionError => conns[s]
              /\ last' = Call("Close", "", NoTime, NoEnv, err, <<>>,
                              <<SyslogCall("Close", s, "", err)>>)
         /\ conns' = [conns EXCEPT ![s] = FALSE]
         /\ s' = NIL
         /\ UNCHANGED <<debug, verbose, color>>

\* (*Writer).Close: closes the connection if there is one and forgets it;
\* the error of closing is returned.  On the nil Writer it panics.
Close ==
    IF s = NIL
    THEN /\ last' = Call("Close", "", NoTime, NoEnv, Panic, <<>>, <<>>)
         /\ UNCHANGED <<s, debug, verbose, color, conns>>
    ELSE /\ \E err \in {OK, ConnectionError} :
              /\ err = ConnectionError => conns[s]
              /\ last' = Call("Close", "", NoTime, NoEnv, err, <<>>,
                              <<SyslogCall("Close", s, "", err)>>)
         /\ conns' = [conns EXCEPT ![s] = FALSE]
         /\ UNCHANGED <<s, debug, verbose, color>>

(* ------------------------------ setters -------------------------------- *)

DisableColor ==
    /\ color' = FALSE
    /\ last' = Call("DisableColor", "", NoTime, NoEnv, Void, <<>>, <<>>)
    /\ UNCHANGED <<s, debug, verbose, conns>>

SetDebug(b) ==
    /\ debug' = b
    /\ last' = Call("SetDebug", "", NoTime, NoEnv, Void, <<>>, <<>>)
    /\ UNCHANGED <<s, verbose, color, conns>>

SetVerbose(b) ==
    /\ verbose' = b
    /\ last' = Call("SetVerbose", "", NoTime, NoEnv, Void, <<>>, <<>>)
    /\ UNCHANGED <<s, debug, color, conns>>

(* ---------------------------- PrintToScreen ---------------------------- *)

mColor(level) ==
    CASE level = L_EMERGENCY -> C_RED
      [] level = L_ALERT -> C_RED
      [] level = L_CRITICAL -> C_YELLOW
      [] level = L_ERROR -> C_YELLOW
      [] level = L_WARNING -> C_MAGENTA
      [] level = L_NOTICE -> C_CYAN
      [] level = L_INFO -> C_WHITE
      [] level = L_DEBUG -> C_GREEN
      [] OTHER -> ""

mHeader(level) ==
    CASE level = L_EMERGENCY -> M_EMERGENCY
      [] level = L_ALERT -> M_ALERT
      [] level = L_CRITICAL -> M_CRITICAL
      [] level = L_ERROR -> M_ERROR
      [] level = L_WARNING -> M_WARNING
      [] level = L_NOTICE -> M_NOTICE
      [] level = L_INFO -> M_INFO
      [] level = L_DEBUG -> M_DEBUG
      [] OTHER -> ""

\* PrintToScreen that forgets to clear mReset when colours are off.
PrintToScreen_KeepReset(level, message, now) ==
    now \o " - "
        \o (IF ~color THEN "" ELSE mColor(level))
        \o mHeader(level)
        \o C_RESET
        \o " " \o message \o "\n"

\* The line written by fmt.Printf("%s - %s%s%s %s\n", ...) at time now.
PrintToScreen(level, message, now) ==
    now \o " - "
        \o (IF ~color THEN "" ELSE mColor(level))
        \o mHeader(level)
        \o (IF ~color THEN "" ELSE C_RESET)
        \o " " \o message \o "\n"

(* ------------------------- the severity functions ---------------------- *)

\* A call of a severity method of *syslog.Writer on s (writeAndRetry):
\* the message is written to the connection; without a connection, or when
\* the write fails, the Writer reconnects once and writes again.  The call
\* ends with a connection unless the reconnect failed.  On nil it panics.
\* screen holds what the calling function printed before the call, at now.
ToSyslog(op, method, message, now, screen) ==
    IF s = NIL
    THEN /\ last' = Call(op, message, now, NoEnv, Panic, screen, <<>>)
         /\ UNCHANGED <<s, debug, verbose, color, conns>>
    ELSE /\ \E err \in {OK, EmissionError}, connected \in BOOLEAN :
              /\ err = OK => connected
              /\ conns' = [conns EXCEPT ![s] = connected]
              /\ last' = Call(op, message, now, NoEnv, err, screen,
                              <<SyslogCall(method, s, message, err)>>)
         /\ UNCHANGED <<s, debug, verbose, color>>

\* The debug branch of a severity function: PrintToScreen, return nil.
ToScreen(op, level, message) ==
    /\ \E now \in Clock :
          last' = Call(op, message, now, NoEnv, OK,
                       <<PrintToScreen(level, message, now)>>, <<>>)
    /\ UNCHANGED <<s, debug, verbose, color, conns>>

\* The final "return nil" of Info and Debug when verbose is off.
Ignored(op, message) ==
    /\ last' = Call(op, message, NoTime, NoEnv, OK, <<>>, <<>>)
    /\ UNCHANGED <<s, debug, verbose, color, conns>>

\* Emergency treated like the other severities: in debug mode screen only.
Emergency_DebugRedirect(message) ==
    IF debug = TRUE
    THEN ToScreen("Emergency", L_EMERGENCY, message)
    ELSE \E now \in Clock :
            ToSyslog("Emergency", "Emerg", message, now,
                     <<PrintToScreen(L_EMERGENCY, message, now)>>)

Emergency(message) ==
    \E now \in Clock :
        ToSyslog("Emergency", "Emerg", message, now,
                 <<PrintToScreen(L_EMERGENCY, message, now)>>)

Alert(message) ==
    IF debug = TRUE
    THEN ToScreen("Alert", L_ALERT, message)
    ELSE ToSyslog("Alert", "Alert", message, NoTime, <<>>)

\* Critical forwarded with the method of the next severity.
Critical_WrongSeverity(message) ==
    IF debug = TRUE
    THEN ToScreen("Critical", L_CRITICAL, message)
    ELSE ToSyslog("Critical", "Err", message, NoTime, <<>>)

Critical(message) ==
    IF debug = TRUE
    THEN ToScreen("Critical", L_CRITICAL, message)
    ELSE ToSyslog("Critical", "Crit", message, NoTime, <<>>)

Error(message) ==
    IF debug = TRUE
    THEN ToScreen("Error", L_ERROR, message)
    ELSE ToSyslog("Error", "Err", message, NoTime, <<>>)

Warning(message) ==
    IF debug = TRUE
    THEN ToScreen("Warning", L_WARNING, message)
    ELSE ToSyslog("Warning", "Warning", message, NoTime, <<>>)

\* Notice printing in debug mode and then going on to Syslog.
Notice_AlsoSyslog(message) ==
    IF debug = TRUE
    THEN \E now \in Clock :
            ToSyslog("Notice", "Notice", message, now,
                     <<PrintToScreen(L_NOTICE, message, now)>>)
    ELSE ToSyslog("Notice", "Notice", message, NoTime, <<>>)

Notice(message) ==
    IF debug = TRUE
    THEN ToScreen("Notice", L_NOTICE, message)
    ELSE ToSyslog("Notice", "Notice", message, NoTime, <<>>)

\* Info without the test of verbose.
Info_NoVerboseGate(message) ==
    IF debug = TRUE
    THEN ToScreen("Info", L_INFO, message)
    ELSE ToSyslog("Info", "Info", message, NoTime, <<>>)

Info(message) ==
    IF verbose = TRUE
    THEN IF debug = TRUE
         THEN ToScreen("Info", L_INFO, message)
         ELSE ToSyslog("Info", "Info", message, NoTime, <<>>)
    ELSE Ignored("Info", message)

Debug(message) ==
    IF verbose = TRUE
    THEN IF debug = TRUE
         THEN ToScreen("Debug", L_DEBUG, message)
         ELSE ToSyslog("Debug", "Debug", message, NoTime, <<>>)
    ELSE Ignored("Debug", message)

(* ------------------------------ behaviours ----------------------------- *)

Next ==
    \/ \E tag \in Tags : Open(tag)
    \/ Close
    \/ DisableColor
    \/ \E b \in BOOLEAN : SetDebug(b)
    \/ \E b \in BOOLEAN : SetVerbose(b)
    \/ \E m \in Messages : Emergency(m)
    \/ \E m \in Messages : Alert(m)
    \/ \E m \in Messages : Critical(m)
    \/ \E m \in Messages : Error(m)
    \/ \E m \in Messages : Warning(m)
    \/ \E m \in Messages : Notice(m)
    \/ \E m \in Messages : Info(m)
    \/ \E m \in Messages : Debug(m)

Spec == Init /\ [][Next]_vars

(* ------------------------------ properties ----------------------------- *)

\* Every state is the state right after the call recorded in last, and
\* last.pre is the state that call started in.

Redirected == {"Alert", "Critical", "Error", "Warning", "Notice"}
Gated == {"Info", "Debug"}

\* The call recorded in last went past the verbosity gate.
PastGate == last.op \in Redirected \/ (last.op \in Gated /\ last.pre.verbose)

\* The facade was Open when the call started: s references a Writer that
\* holds a connection.
WasOpen == last.pre.s # NIL /\ last.pre.conns[last.pre.s]

\* The method of the collaborator that carries each severity.
MethodOf(op) ==
    CASE op = "Emergency" -> "Emerg"
      [] op = "Alert" -> "Alert"
      [] op = "Critical" -> "Crit"
      [] op = "Error" -> "Err"
      [] op = "Warning" -> "Warning"
      [] op = "Notice" -> "Notice"
      [] op = "Info" -> "Info"
      [] op = "Debug" -> "Debug"

\* The 9-character label of each severity.
LabelOf(op) ==
    CASE op = "Emergency" -> "EMERGENCY"
      [] op = "Alert" -> "ALERT    "
      [] op = "Critical" -> "CRITICAL "
      [] op = "Error" -> "ERROR    "
      [] op = "Warning" -> "WARNING  "
      [] op = "Notice" -> "NOTICE   "
      [] op = "Info" -> "INFO     "
      [] op = "Debug" -> "DEBUG    "

\* The fixed colour of each severity.
ColourOf(op) ==
    CASE op = "Emergency" -> C_RED
      [] op = "Alert" -> C_RED
      [] op = "Critical" -> C_YELLOW
      [] op = "Error" -> C_YELLOW
      [] op = "Warning" -> C_MAGENTA
      [] op = "Notice" -> C_CYAN
      [] op = "Info" -> C_WHITE
      [] op = "Debug" -> C_GREEN

Severities == Redirected \cup Gated \cup {"Emergency"}

\* <timestamp> - <colorPrefix><label><colorReset> <message>, as one line.
Line(timestamp, colorPrefix, label, colorReset, message) ==
    timestamp \o " - " \o colorPrefix \o label \o colorReset \o " "
        \o message \o "\n"

\* The call recorded in last forwarded once, to method, on the target.
ForwardedOnce(method) ==
    /\ Len(last.syslog) = 1
    /\ last.syslog[1].method = method
    /\ last.syslog[1].handle = last.pre.s
    /\ last.syslog[1].message = last.arg

\* C1: Emergency called in the Open state writes exactly one terminal line,
\* makes exactly one Emerg call on the target and returns that call's
\* result, whatever debug and verbose are.
C1_EmergencyBothSinks ==
    (last.op = "Emergency" /\ WasOpen) =>
        /\ Len(last.screen) = 1
        /\ ForwardedOnce("Emerg")
        /\ last.result = last.syslog[1].err

\* C1 witness: in debug mode an Emergency printed its line, forwarded and
\* returned the collaborator's error.
C1_Witness ==
    /\ last.op = "Emergency" /\ WasOpen
    /\ last.pre.debug /\ ~last.pre.verbose
    /\ Len(last.screen) = 1
    /\ last.result = EmissionError

\* C2: with debug on, Alert..Notice (and Info, Debug past the verbosity
\* gate) return nil, print exactly one line carrying the severity's label
\* and make no collaborator call, whatever s is.
C2_DebugModeScreenOnly ==
    (last.op \in Severities \ {"Emergency"} /\ PastGate /\ last.pre.debug) =>
        /\ last.result = OK
        /\ Len(last.screen) = 1
        /\ \E colorPrefix \in {"", ColourOf(last.op)},
              colorReset \in {"", C_RESET} :
              last.screen[1] = Line(last.now, colorPrefix, LabelOf(last.op),
                                    colorReset, last.arg)
        /\ last.syslog = <<>>

\* C2 witness: a debug-mode Warning printed with no Writer at all (s nil).
C2_Witness ==
    /\ last.op = "Warning" /\ last.pre.debug
    /\ last.pre.s = NIL
    /\ last.result = OK /\ Len(last.screen) = 1

\* C3: with debug off and the facade Open, Alert..Notice (and Info, Debug
\* past the verbosity gate) make exactly one collaborator call, of the
\* method of their severity, print nothing and return that call's result.
C3_SyslogForward ==
    (last.op \in Severities \ {"Emergency"} /\ PastGate /\ ~last.pre.debug
       /\ WasOpen) =>
        /\ ForwardedOnce(MethodOf(last.op))
        /\ last.screen = <<>>
        /\ last.result = last.syslog[1].err

\* C3 witness: a Critical forwarded in the Open state returned the error
\* of the Crit call.
C3_Witness ==
    /\ last.op = "Critical" /\ ~last.pre.debug /\ WasOpen
    /\ Len(last.syslog) = 1
    /\ last.result = EmissionError

\* C4: with verbose off, Info and Debug return nil, print nothing and make
\* no collaborator call, whatever debug and s are.
C4_VerboseGate ==
    (last.op \in Gated /\ ~last.pre.verbose) =>
        /\ last.result = OK
        /\ last.screen = <<>>
        /\ last.syslog = <<>>

\* C4 witness: Info was ignored in debug mode before any Open.
C4_Witness ==
    /\ last.op = "Info" /\ ~last.pre.verbose /\ last.pre.debug
    /\ last.pre.s = NIL
    /\ last.result = OK

\* C5: Open("") returns the configuration error and never calls syslog.New.
C5_EmptyTag ==
    (last.op = "Open" /\ last.arg = "") =>
        /\ last.result = ConfigurationError
        /\ last.syslog = <<>>

\* C5 witness: Open("") was refused while an earlier Open's Writer is held.
C5_Witness ==
    /\ last.op = "Open" /\ last.arg = ""
    /\ last.pre.s # NIL
    /\ last.result = ConfigurationError

\* C6: color never goes from false to true; it changes only in
\* DisableColor and in an Open that returned nil, and only from true to
\* false.
C6_ColorOneWay ==
    /\ ~last.pre.color => ~color
    /\ color # last.pre.color =>
          /\ last.op \in {"DisableColor", "Open"}
          /\ last.op = "Open" => last.result = OK
          /\ last.pre.color /\ ~color

\* C6 witness: with colours off, a second Open on an interactive terminal
\* succeeded and colours are still off.
C6_Witness ==
    /\ last.op = "Open" /\ last.result = OK
    /\ last.pre.s # NIL
    /\ last.env.term = "xterm" /\ last.env.isTerminal
    /\ ~last.pre.color /\ ~color

\* C7 (as stated): s is nil until the first successful Open, non-nil after
\* a successful Open and nil again after Close.
C7_TargetLifecycle ==
    /\ conns = <<>> => s = NIL
    /\ (last.op = "Open" /\ last.result = OK) => s # NIL
    /\ last.op = "Close" => s = NIL

\* C7 (amended): s is nil until the first successful Open and references a
\* connected Writer right after a successful Open; Close releases the
\* connection but leaves s referencing the same Writer.
C7_TargetKeptByClose ==
    /\ conns = <<>> => s = NIL
    /\ (last.op = "Open" /\ last.result = OK) => (s # NIL /\ conns[s])
    /\ (last.op = "Close" /\ last.pre.s # NIL) =>
          (s = last.pre.s /\ ~conns[s])

\* C7 witness: Close returned nil on an Open facade.
C7_Witness ==
    /\ last.op = "Close" /\ WasOpen
    /\ last.result = OK

\* The Writers that hold a connection.
Live == {h \in 1..Len(conns) : conns[h]}

\* C8: at most one connection made through the facade is live, and it is
\* the one s references.
C8_SingleLiveConnection ==
    /\ Cardinality(Live) <= 1
    /\ \A h \in Live : h = s

\* C9: every line printed for a severity is
\* <timestamp> - <colorPrefix><9-character label><colorReset> <message>,
\* with both colorPrefix and colorReset empty when color is off, and the
\* severity's colour and the reset sequence when it is on.
C9_LineFormat ==
    last.op \in Severities =>
        \A i \in 1..Len(last.screen) :
            /\ Len(LabelOf(last.op)) = 9
            /\ last.screen[i] =
                  IF color
                  THEN Line(last.now, ColourOf(last.op), LabelOf(last.op),
                            C_RESET, last.arg)
                  ELSE Line(last.now, "", LabelOf(last.op), "", last.arg)

\* C9 witness: after DisableColor a line was printed.
C9_Witness ==
    /\ last.op = "Warning" /\ last.arg = "disk full"
    /\ ~color
    /\ last.screen = <<"2024-01-01T00:00:00Z - WARNING   disk full\n">>

\* C10: an Open that returns an error leaves s, debug, verbose and color as
\* they were.
C10_FailedOpenKeepsState ==
    (last.op = "Open" /\ last.result # OK) =>
        /\ s = last.pre.s
        /\ debug = last.pre.debug
        /\ verbose = last.pre.verbose
        /\ color = last.pre.color

====
